---------------------------- MODULE Spec2Model ----------------------------
(***************************************************************************)
(* HT16K33 LED-matrix driver (src/src/lib.rs), its validated argument     *)
(* types (src/src/types/*.rs) and the I2cMock register simulator          *)
(* (src/src/i2c_mock.rs).                                                  *)
(*                                                                         *)
(* Bytes are naturals in 0..255.  Rust arrays are functions on 0..n-1;     *)
(* byte slices handed to the bus are sequences, read with At(s, i) for the *)
(* 0-based index i of the source.                                          *)
(*                                                                         *)
(* Spec: a driver built by HT16K33::new on a register simulator, then up   *)
(* to MaxOps calls of its operations, each with arguments from the input   *)
(* sets below and with the bus accepting or refusing its transactions.     *)
(* SpecAccessors: Spec with the get_* accessors among the calls.           *)
(* SpecDestroy: Spec with destroy, after which no call is possible.        *)
(* SpecSimulator: Spec on a bus that accepts every transaction, compared   *)
(* with the cursor-based simulator of the specification.                   *)
(* SpecTypes: one call of a validating constructor on any u8 arguments or  *)
(* of LedLocation::default, then one call on the location returned.        *)
(* SpecMock: the register simulator called directly.                       *)
(***************************************************************************)
EXTENDS Naturals, Sequences, FiniteSets

\* ------------------------------------------------------------------------
\* Program constants (lib.rs 22-28)
\* ------------------------------------------------------------------------
ROWS_SIZE == 16
COMMONS_SIZE == 8

DATA_ADDRESS == 0
DIMMING_SET == 224
DISPLAY_SET == 128
SYSTEM_SET == 32

\* All values of a u8.
U8 == 0..255

\* ------------------------------------------------------------------------
\* u8 arithmetic: the operators |, &, ^, ! and << of the source
\* ------------------------------------------------------------------------
RECURSIVE BitOrN(_, _, _)
BitOrN(a, b, n) ==
    IF n = 0 THEN 0
    ELSE (IF a % 2 = 1 \/ b % 2 = 1 THEN 1 ELSE 0)
         + 2 * BitOrN(a \div 2, b \div 2, n - 1)

RECURSIVE BitAndN(_, _, _)
BitAndN(a, b, n) ==
    IF n = 0 THEN 0
    ELSE (IF a % 2 = 1 /\ b % 2 = 1 THEN 1 ELSE 0)
         + 2 * BitAndN(a \div 2, b \div 2, n - 1)

RECURSIVE BitXorN(_, _, _)
BitXorN(a, b, n) ==
    IF n = 0 THEN 0
    ELSE (IF (a % 2) # (b % 2) THEN 1 ELSE 0)
         + 2 * BitXorN(a \div 2, b \div 2, n - 1)

\* a | b, a & b, a ^ b on u8
BitOr(a, b) == BitOrN(a, b, 8)
BitAnd(a, b) == BitAndN(a, b, 8)
BitXor(a, b) == BitXorN(a, b, 8)

\* !a on u8
BitNot(a) == 255 - a

\* 1 << k as the u8 the source's type inference makes it (k < 8 for every
\* location LedLocation::new lets through)
Shl1(k) == (2 ^ k) % 256

\* bytes[i] of a slice, 0-based as in the source
At(bytes, i) == bytes[i + 1]

\* ------------------------------------------------------------------------
\* Result values
\* ------------------------------------------------------------------------
Ok(v) == [tag |-> "Ok", value |-> v]
Err(e) == [tag |-> "Err", value |-> e]
Unit == <<>>

\* ------------------------------------------------------------------------
\* lib.rs 30-113: the state enumerations and their encodings
\* ------------------------------------------------------------------------
Oscillators == {"On", "Off"}
Displays == {"On", "Off"}
Blinks == {"Off", "HalfHz", "OneHz", "TwoHz"}

Oscillator_value(o) == IF o = "On" THEN 1 ELSE 0

Display_value(d) == IF d = "On" THEN 1 ELSE 0

\* variant: 0.5 Hz carries the code of 1 Hz
Blink_value_half_as_one(b) ==
    CASE b = "Off" -> 0
      [] b = "HalfHz" -> 4
      [] b = "OneHz" -> 4
      [] b = "TwoHz" -> 2

\* lib.rs 72-81
Blink_value(b) ==
    CASE b = "Off" -> 0
      [] b = "HalfHz" -> 6
      [] b = "OneHz" -> 4
      [] b = "TwoHz" -> 2

\* enum Dimming { Brightness(u8), MinBrightness, MaxBrightness }
Brightness(v) == [tag |-> "Brightness", v |-> v]
MinBrightness == [tag |-> "MinBrightness", v |-> 0]
MaxBrightness == [tag |-> "MaxBrightness", v |-> 0]

lib_Dimming_value(d) ==
    CASE d.tag = "Brightness" -> d.v
      [] d.tag = "MinBrightness" -> 0
      [] d.tag = "MaxBrightness" -> 15

\* lib.rs 94-104
lib_Dimming_from_u8(value) ==
    IF value > lib_Dimming_value(MaxBrightness)
    THEN Err([kind |-> "OutOfRange", value |-> value,
              limit |-> lib_Dimming_value(MaxBrightness)])
    ELSE Ok(Brightness(value))

\* lib.rs 120-145
lib_LedLocation_new(row, common) ==
    IF row >= ROWS_SIZE
    THEN Err([kind |-> "OutOfRange", name |-> "Row", value |-> row,
              limit |-> ROWS_SIZE])
    ELSE IF common >= COMMONS_SIZE
    THEN Err([kind |-> "OutOfRange", name |-> "Common", value |-> common,
              limit |-> COMMONS_SIZE])
    ELSE Ok([row |-> row, common |-> common])

\* ------------------------------------------------------------------------
\* src/types: the bitflags revision of the argument types
\* ------------------------------------------------------------------------
\* bitflags from_bits_truncate: the bits that belong to no flag are dropped
from_bits_truncate(bits, all, width) == BitAndN(bits, all, width)

\* union of a set of flag values (bitflags all())
RECURSIVE FlagsUnion(_, _)
FlagsUnion(flags, width) ==
    IF flags = {} THEN 0
    ELSE LET f == CHOOSE x \in flags : TRUE
         IN BitOrN(f, FlagsUnion(flags \ {f}, width), width)

\* types/dimming.rs 17-59
Dimming_COMMAND == 224
Dimming_BRIGHTNESS_MAX == 15
Dimming_all == FlagsUnion({Dimming_COMMAND} \cup (0..Dimming_BRIGHTNESS_MAX), 8)

\* variant: the limit is taken as exclusive
Dimming_from_u8_exclusive(value) ==
    IF value >= Dimming_BRIGHTNESS_MAX
    THEN Err([kind |-> "ValueTooLarge", name |-> "Dimming", value |-> value,
              limit |-> Dimming_BRIGHTNESS_MAX, inclusive |-> TRUE])
    ELSE Ok([bits |-> from_bits_truncate(value, Dimming_all, 8)])

\* types/dimming.rs 128-139
Dimming_from_u8(value) ==
    IF value > Dimming_BRIGHTNESS_MAX
    THEN Err([kind |-> "ValueTooLarge", name |-> "Dimming", value |-> value,
              limit |-> Dimming_BRIGHTNESS_MAX, inclusive |-> TRUE])
    ELSE Ok([bits |-> from_bits_truncate(value, Dimming_all, 8)])

\* types/display.rs 4-24: the display states of the bitflags driver
Display_COMMAND == 128
Display_ON == 1
Display_OFF == 0
Display_HALF_HZ == BitOr(6, Display_ON)
Display_ONE_HZ == BitOr(4, Display_ON)
Display_TWO_HZ == BitOr(2, Display_ON)

\* The row mask and common address types LedLocation uses (ROW_0..ROW_15 are
\* the sixteen single bits of a u16, COMMON_0..COMMON_7 the values 0..7).
DisplayData_ROW_all == FlagsUnion({2 ^ r : r \in 0..(ROWS_SIZE - 1)}, 16)
DisplayDataAddress_COMMON_all == FlagsUnion(0..(COMMONS_SIZE - 1), 8)

\* variant: common is validated before row
LedLocation_new_common_first(row, common) ==
    IF common >= COMMONS_SIZE
    THEN Err([kind |-> "ValueTooLarge", name |-> "common", value |-> common,
              limit |-> COMMONS_SIZE, inclusive |-> FALSE])
    ELSE IF row >= ROWS_SIZE
    THEN Err([kind |-> "ValueTooLarge", name |-> "row", value |-> row,
              limit |-> ROWS_SIZE, inclusive |-> FALSE])
    ELSE Ok([row |-> from_bits_truncate(2 ^ row, DisplayData_ROW_all, 16),
             common |-> from_bits_truncate(common,
                                           DisplayDataAddress_COMMON_all, 8)])

\* types/led_location.rs 80-103
LedLocation_new(row, common) ==
    IF row >= ROWS_SIZE
    THEN Err([kind |-> "ValueTooLarge", name |-> "row", value |-> row,
              limit |-> ROWS_SIZE, inclusive |-> FALSE])
    ELSE IF common >= COMMONS_SIZE
    THEN Err([kind |-> "ValueTooLarge", name |-> "common", value |-> common,
              limit |-> COMMONS_SIZE, inclusive |-> FALSE])
    ELSE Ok([row |-> from_bits_truncate(2 ^ row, DisplayData_ROW_all, 16),
             common |-> from_bits_truncate(common,
                                           DisplayDataAddress_COMMON_all, 8)])

\* DisplayData::ROW_NONE, the row mask with no bit set; it is the default of
\* the row mask, as COMMON_NONE is in types/display_data.rs 13 and 82-86
DisplayData_ROW_NONE == 0

\* LedLocation::default (derived, types/led_location.rs 37): every field is
\* its type's default, the row mask ROW_NONE and the common COMMON_0
\* (types/led_location.rs 141-150)
LedLocation_default == [row |-> DisplayData_ROW_NONE, common |-> 0]

\* types/led_location.rs 116-118
LedLocation_common_as_index(self) == self.common

\* DisplayData::ROW_8, the ninth single bit of the row mask
DisplayData_ROW_8 == 2 ^ 8

\* variant: the common is not doubled
LedLocation_common_as_index_on_chip_unscaled(self) ==
    LET chip_index == self.common
        offs == IF self.row >= DisplayData_ROW_8 THEN 1 ELSE 0
    IN (chip_index + offs) % 256

\* variant: the second byte starts after row 8 instead of at row 8
LedLocation_common_as_index_on_chip_after_row_8(self) ==
    LET chip_index == (self.common * 2) % 256
        offs == IF self.row > DisplayData_ROW_8 THEN 1 ELSE 0
    IN (chip_index + offs) % 256

\* types/led_location.rs 122-134 (u8 arithmetic)
LedLocation_common_as_index_on_chip(self) ==
    LET chip_index == (self.common * 2) % 256
        offs == IF self.row >= DisplayData_ROW_8 THEN 1 ELSE 0
    IN (chip_index + offs) % 256

\* The bit of a location inside the device byte common_as_index_on_chip
\* names: the row mask is a 16-bit word held in two consecutive bytes, low
\* byte at the even offset, so the bit is the row's position in its byte.
LedLocation_bit_on_chip(self) ==
    (CHOOSE r \in 0..(ROWS_SIZE - 1) : 2 ^ r = self.row) % 8

\* ------------------------------------------------------------------------
\* i2c_mock.rs: the register simulator
\* ------------------------------------------------------------------------
\* I2cMock::new (i2c_mock.rs 60-74)
I2cMock_new == [i \in 0..(ROWS_SIZE - 1) |-> 0]

\* variant: the offset is incremented without wrapping
RECURSIVE I2cMock_write_loop_no_wrap(_, _, _, _)
I2cMock_write_loop_no_wrap(data_values, data_offset, data, i) ==
    IF i > Len(data) THEN [data_values |-> data_values, tag |-> "Ok"]
    ELSE IF data_offset \notin DOMAIN data_values
    THEN [data_values |-> data_values, tag |-> "Panic"]
    ELSE I2cMock_write_loop_no_wrap(
             [data_values EXCEPT ![data_offset] = data[i]],
             data_offset + 1, data, i + 1)

\* the loop of I2cMock::write (i2c_mock.rs 167-172); indexing data_values
\* outside 0..15 aborts the program
RECURSIVE I2cMock_write_loop(_, _, _, _)
I2cMock_write_loop(data_values, data_offset, data, i) ==
    IF i > Len(data) THEN [data_values |-> data_values, tag |-> "Ok"]
    ELSE IF data_offset \notin DOMAIN data_values
    THEN [data_values |-> data_values, tag |-> "Panic"]
    ELSE I2cMock_write_loop([data_values EXCEPT ![data_offset] = data[i]],
                            (data_offset + 1) % ROWS_SIZE, data, i + 1)

\* variant: a lone command byte is stored as the data of register 0
I2cMock_write_store_command(data_values, bytes) ==
    IF Len(bytes) = 1
    THEN [data_values |-> [data_values EXCEPT ![0] = At(bytes, 0)],
          tag |-> "Ok"]
    ELSE IF Len(bytes) = 0 THEN [data_values |-> data_values, tag |-> "Panic"]
    ELSE I2cMock_write_loop(data_values, BitXor(At(bytes, 0), DATA_ADDRESS),
                            SubSeq(bytes, 2, Len(bytes)), 1)

\* variant: the address byte is stored as the first data byte
I2cMock_write_keep_address(data_values, bytes) ==
    IF Len(bytes) = 1 THEN [data_values |-> data_values, tag |-> "Ok"]
    ELSE IF Len(bytes) = 0 THEN [data_values |-> data_values, tag |-> "Panic"]
    ELSE I2cMock_write_loop(data_values, BitXor(At(bytes, 0), DATA_ADDRESS),
                            bytes, 1)

\* I2cMock::write (i2c_mock.rs 154-175)
I2cMock_write(data_values, bytes) ==
    IF Len(bytes) = 1 THEN [data_values |-> data_values, tag |-> "Ok"]
    ELSE IF Len(bytes) = 0 THEN [data_values |-> data_values, tag |-> "Panic"]
    ELSE I2cMock_write_loop(data_values, BitXor(At(bytes, 0), DATA_ADDRESS),
                            SubSeq(bytes, 2, Len(bytes)), 1)

\* the loop of I2cMock::write_read (i2c_mock.rs 115-120)
RECURSIVE I2cMock_read_loop(_, _, _, _)
I2cMock_read_loop(data_values, data_offset, n, out) ==
    IF Len(out) = n THEN [buffer |-> out, tag |-> "Ok"]
    ELSE IF data_offset \notin DOMAIN data_values
    THEN [buffer |-> out, tag |-> "Panic"]
    ELSE I2cMock_read_loop(data_values, (data_offset + 1) % ROWS_SIZE, n,
                           Append(out, data_values[data_offset]))

\* variant: the read starts at register 0 whatever the address byte
I2cMock_write_read_from_zero(data_values, bytes, n) ==
    IF Len(bytes) = 0 THEN [buffer |-> <<>>, tag |-> "Panic"]
    ELSE I2cMock_read_loop(data_values, 0, n, <<>>)

\* variant: the read starts one register after the address byte
I2cMock_write_read_after_address(data_values, bytes, n) ==
    IF Len(bytes) = 0 THEN [buffer |-> <<>>, tag |-> "Panic"]
    ELSE I2cMock_read_loop(data_values,
                           (BitXor(At(bytes, 0), DATA_ADDRESS) + 1)
                               % ROWS_SIZE,
                           n, <<>>)

\* I2cMock::write_read (i2c_mock.rs 103-123); n is buffer.len()
I2cMock_write_read(data_values, bytes, n) ==
    IF Len(bytes) = 0 THEN [buffer |-> <<>>, tag |-> "Panic"]
    ELSE I2cMock_read_loop(data_values, BitXor(At(bytes, 0), DATA_ADDRESS),
                           n, <<>>)

\* ------------------------------------------------------------------------
\* The bus the driver owns (lib.rs 168-171: any I2C with Write and WriteRead
\* sharing one error type E).  It is the register simulator behind a link
\* that may refuse a transaction: the fail_at-th transaction of the running
\* operation returns Err(error), an error value of the bus's type E, and
\* leaves the registers alone (fail_at = 0: none is refused, which is I2cMock
\* itself).  log lists the transactions of the running operation in the order
\* they were issued.
\* ------------------------------------------------------------------------
BusErrors == {"Nack", "ArbitrationLoss"}
Panic == [tag |-> "Panic", value |-> Unit]

\* one bus transaction as the bus saw it: the bytes written, for a
\* write_read the length asked for and the bytes returned, how it ended and
\* the error it was refused with ("None" when it was not refused)
Transaction(kind, address, bytes, len, out, tag, error) ==
    [kind |-> kind, address |-> address, bytes |-> bytes, len |-> len,
     out |-> out, tag |-> tag, error |-> error]

\* hal::blocking::i2c::Write::write
i2c_write(i2c, address, bytes) ==
    IF i2c.fail_at = Len(i2c.log) + 1
    THEN [i2c |-> [i2c EXCEPT !.log = Append(@,
                     Transaction("write", address, bytes, 0, <<>>, "Err",
                                 i2c.error))],
          res |-> Err(i2c.error)]
    ELSE LET w == I2cMock_write(i2c.data_values, bytes)
         IN [i2c |-> [i2c EXCEPT !.data_values = w.data_values,
                                 !.log = Append(@,
                      Transaction("write", address, bytes, 0, <<>>, w.tag,
                                  "None"))],
             res |-> IF w.tag = "Ok" THEN Ok(Unit) ELSE Panic]

\* hal::blocking::i2c::WriteRead::write_read; buffer is returned filled (it
\* is left as it was when the transaction is refused)
i2c_write_read(i2c, address, bytes, buffer) ==
    LET n == Cardinality(DOMAIN buffer)
    IN IF i2c.fail_at = Len(i2c.log) + 1
       THEN [i2c |-> [i2c EXCEPT !.log = Append(@,
                        Transaction("write_read", address, bytes, n, <<>>,
                                    "Err", i2c.error))],
             buffer |-> buffer,
             res |-> Err(i2c.error)]
       ELSE LET r == I2cMock_write_read(i2c.data_values, bytes, n)
            IN [i2c |-> [i2c EXCEPT !.log = Append(@,
                         Transaction("write_read", address, bytes, n,
                                     r.buffer, r.tag, "None"))],
                buffer |-> IF r.tag = "Ok"
                           THEN [i \in DOMAIN buffer |-> At(r.buffer, i)]
                           ELSE buffer,
                res |-> IF r.tag = "Ok" THEN Ok(Unit) ELSE Panic]

\* ------------------------------------------------------------------------
\* lib.rs 147-678: the driver.  Every operation maps the driver value self
\* to [self |-> the driver afterwards, res |-> the value returned].
\* ------------------------------------------------------------------------
\* variant: the dimming default is the minimum
HT16K33_new_min_brightness(i2c, address) ==
    [address |-> address,
     i2c |-> i2c,
     buffer |-> [i \in 0..(ROWS_SIZE - 1) |-> 0],
     oscillator_state |-> "Off",
     display_state |-> "Off",
     blink_state |-> "Off",
     dimming_state |-> MinBrightness]

\* HT16K33::new (lib.rs 209-230)
HT16K33_new(i2c, address) ==
    [address |-> address,
     i2c |-> i2c,
     buffer |-> [i \in 0..(ROWS_SIZE - 1) |-> 0],
     oscillator_state |-> "Off",
     display_state |-> "Off",
     blink_state |-> "Off",
     dimming_state |-> MaxBrightness]

\* lib.rs 283-287: the driver is moved in and its bus is handed back
destroy(self) == self.i2c

\* the accessors (lib.rs 307-383): references to the shadow fields
get_display_buffer(self) == self.buffer
get_oscillator(self) == self.oscillator_state
get_display(self) == <<self.display_state, self.blink_state>>
get_dimming(self) == self.dimming_state

\* variant: disabling assigns the inverted mask instead of and-ing it
update_row_assign(value, location, enabled) ==
    IF enabled
    THEN BitOr(value, Shl1(location.common))
    ELSE BitNot(Shl1(location.common))

\* variant: enabling an LED switches the other LEDs of its row off
update_row_exclusive(value, location, enabled) ==
    IF enabled
    THEN Shl1(location.common)
    ELSE BitAnd(value, BitNot(Shl1(location.common)))

\* variant: enabling toggles the bit instead of setting it
update_row_toggle(value, location, enabled) ==
    IF enabled
    THEN BitXor(value, Shl1(location.common))
    ELSE BitAnd(value, BitNot(Shl1(location.common)))

\* lib.rs 418-424
update_row(value, location, enabled) ==
    IF enabled
    THEN BitOr(value, Shl1(location.common))
    ELSE BitAnd(value, BitNot(Shl1(location.common)))

\* lib.rs 414-427
update_display_buffer(self, location, enabled) ==
    [self |-> [self EXCEPT !.buffer[location.row] =
                               update_row(@, location, enabled)],
     res |-> Ok(Unit)]

\* variant: the loop stops one row short
clear_display_buffer_short(self) ==
    [self EXCEPT !.buffer = [row \in DOMAIN self.buffer |->
                                IF row = ROWS_SIZE - 1 THEN self.buffer[row]
                                ELSE 0]]

\* lib.rs 451-459 (returns nothing)
clear_display_buffer(self) ==
    [self EXCEPT !.buffer = [row \in DOMAIN self.buffer |-> 0]]

\* lib.rs 491
oscillator_command(self) ==
    <<BitOr(SYSTEM_SET, Oscillator_value(self.oscillator_state))>>

\* variant: the shadow field is stored only once the write was accepted
set_oscillator_write_first(self, oscillator) ==
    LET s1 == [self EXCEPT !.oscillator_state = oscillator]
        w == i2c_write(s1.i2c, s1.address, oscillator_command(s1))
    IN [self |-> [(IF w.res.tag = "Ok" THEN s1 ELSE self) EXCEPT !.i2c = w.i2c],
        res |-> w.res]

\* lib.rs 485-494
set_oscillator(self, oscillator) ==
    LET s1 == [self EXCEPT !.oscillator_state = oscillator]
        w == i2c_write(s1.i2c, s1.address, oscillator_command(s1))
    IN [self |-> [s1 EXCEPT !.i2c = w.i2c], res |-> w.res]

\* variant: the blink bits are left out of the command
display_command_no_blink(self) ==
    <<BitOr(DISPLAY_SET, Display_value(self.display_state))>>

\* lib.rs 533
display_command(self) ==
    <<BitOr(BitOr(DISPLAY_SET, Display_value(self.display_state)),
            Blink_value(self.blink_state))>>

\* variant: the blink rate is sent but not stored in the shadow field
set_display_blink_not_stored(self, display, blink) ==
    LET s1 == [self EXCEPT !.display_state = display, !.blink_state = blink]
        w == i2c_write(s1.i2c, s1.address, display_command(s1))
    IN [self |-> [s1 EXCEPT !.i2c = w.i2c, !.blink_state = self.blink_state],
        res |-> w.res]

\* lib.rs 522-537
set_display(self, display, blink) ==
    LET s1 == [self EXCEPT !.display_state = display, !.blink_state = blink]
        w == i2c_write(s1.i2c, s1.address, display_command(s1))
    IN [self |-> [s1 EXCEPT !.i2c = w.i2c], res |-> w.res]

\* lib.rs 569
dimming_command(self) ==
    <<BitOr(DIMMING_SET, lib_Dimming_value(self.dimming_state))>>

\* variant: setting the dimming also switches the blinking off
set_dimming_resets_blink(self, dimming) ==
    LET s1 == [self EXCEPT !.dimming_state = dimming, !.blink_state = "Off"]
        w == i2c_write(s1.i2c, s1.address, dimming_command(s1))
    IN [self |-> [s1 EXCEPT !.i2c = w.i2c], res |-> w.res]

\* lib.rs 563-572
set_dimming(self, dimming) ==
    LET s1 == [self EXCEPT !.dimming_state = dimming]
        w == i2c_write(s1.i2c, s1.address, dimming_command(s1))
    IN [self |-> [s1 EXCEPT !.i2c = w.i2c], res |-> w.res]

\* variant: only the LED's own bit is sent, not the row's shadow byte
led_command_bit_only(self, location) ==
    <<BitOr(DATA_ADDRESS, location.row),
      BitAnd(self.buffer[location.row], Shl1(location.common))>>

\* variant: the rows are numbered from 1 on the wire
led_command_one_based(self, location) ==
    <<BitOr(DATA_ADDRESS, location.row) + 1, self.buffer[location.row]>>

\* lib.rs 608-611
led_command(self, location) ==
    <<BitOr(DATA_ADDRESS, location.row), self.buffer[location.row]>>

\* variant: the whole buffer is sent, not the one row
set_led_write_all(self, location, enabled) ==
    LET u == update_display_buffer(self, location, enabled)
        w == i2c_write(u.self.i2c, u.self.address,
                       <<DATA_ADDRESS>> \o [i \in 1..ROWS_SIZE |->
                                               u.self.buffer[i - 1]])
    IN [self |-> [u.self EXCEPT !.i2c = w.i2c], res |-> w.res]

\* variant: the row is sent as it was, the buffer is updated afterwards
set_led_write_first(self, location, enabled) ==
    LET w == i2c_write(self.i2c, self.address, led_command(self, location))
        u == update_display_buffer([self EXCEPT !.i2c = w.i2c], location,
                                   enabled)
    IN [self |-> u.self, res |-> w.res]

\* variant: a refused write is issued a second time
set_led_retry(self, location, enabled) ==
    LET u == update_display_buffer(self, location, enabled)
    IN IF u.res.tag # "Ok" THEN u
       ELSE LET w == i2c_write(u.self.i2c, u.self.address,
                               led_command(u.self, location))
                w2 == IF w.res.tag = "Err"
                      THEN i2c_write(w.i2c, u.self.address,
                                     led_command(u.self, location))
                      ELSE w
            IN [self |-> [u.self EXCEPT !.i2c = w2.i2c], res |-> w2.res]

\* lib.rs 600-615
set_led(self, location, enabled) ==
    LET u == update_display_buffer(self, location, enabled)
    IN IF u.res.tag # "Ok" THEN u
       ELSE LET w == i2c_write(u.self.i2c, u.self.address,
                               led_command(u.self, location))
            IN [self |-> [u.self EXCEPT !.i2c = w.i2c], res |-> w.res]

\* variant: the copy loop stops one row short
write_buffer_short(self) ==
    <<DATA_ADDRESS>> \o [i \in 1..ROWS_SIZE |->
                            IF i = ROWS_SIZE THEN 0 ELSE self.buffer[i - 1]]

\* lib.rs 639-644
write_buffer(self) ==
    <<DATA_ADDRESS>> \o [i \in 1..ROWS_SIZE |-> self.buffer[i - 1]]

\* lib.rs 636-649
write_display_buffer(self) ==
    LET w == i2c_write(self.i2c, self.address, write_buffer(self))
    IN [self |-> [self EXCEPT !.i2c = w.i2c], res |-> w.res]

\* variant: the bytes read are merged into the buffer, LEDs that are on in
\* the buffer stay on
read_display_buffer_merge(self) ==
    LET r == i2c_write_read(self.i2c, self.address, <<DATA_ADDRESS>>,
                            self.buffer)
    IN [self |-> [self EXCEPT !.i2c = r.i2c,
                              !.buffer = [row \in DOMAIN self.buffer |->
                                  BitOr(self.buffer[row], r.buffer[row])]],
        res |-> r.res]

\* variant: the bytes are read into a copy and never stored
read_display_buffer_discard(self) ==
    LET r == i2c_write_read(self.i2c, self.address, <<DATA_ADDRESS>>,
                            self.buffer)
    IN [self |-> [self EXCEPT !.i2c = r.i2c], res |-> r.res]

\* lib.rs 670-677
read_display_buffer(self) ==
    LET r == i2c_write_read(self.i2c, self.address, <<DATA_ADDRESS>>,
                            self.buffer)
    IN [self |-> [self EXCEPT !.i2c = r.i2c, !.buffer = r.buffer],
        res |-> r.res]

\* variant: the shadow buffer is cleared before the first command is sent
initialize_clear_first(self) ==
    LET r1 == set_oscillator(clear_display_buffer(self), "On")
    IN IF r1.res.tag # "Ok" THEN r1
       ELSE LET r2 == set_display(r1.self, "Off", "Off")
       IN IF r2.res.tag # "Ok" THEN r2
       ELSE LET r3 == set_dimming(r2.self, MaxBrightness)
       IN IF r3.res.tag # "Ok" THEN r3
       ELSE LET r4 == write_display_buffer(r3.self)
       IN IF r4.res.tag # "Ok" THEN r4
       ELSE [self |-> r4.self, res |-> Ok(Unit)]

\* variant: the display is switched on instead of off
initialize_display_on(self) ==
    LET r1 == set_oscillator(self, "On")
    IN IF r1.res.tag # "Ok" THEN r1
       ELSE LET r2 == set_display(r1.self, "On", "Off")
       IN IF r2.res.tag # "Ok" THEN r2
       ELSE LET r3 == set_dimming(r2.self, MaxBrightness)
       IN IF r3.res.tag # "Ok" THEN r3
       ELSE LET r4 == write_display_buffer(clear_display_buffer(r3.self))
       IN IF r4.res.tag # "Ok" THEN r4
       ELSE [self |-> r4.self, res |-> Ok(Unit)]

\* variant: the result of set_display is not looked at
initialize_unchecked(self) ==
    LET r1 == set_oscillator(self, "On")
    IN IF r1.res.tag # "Ok" THEN r1
       ELSE LET r2 == set_display(r1.self, "Off", "Off")
                r3 == set_dimming(r2.self, MaxBrightness)
       IN IF r3.res.tag # "Ok" THEN r3
       ELSE LET r4 == write_display_buffer(clear_display_buffer(r3.self))
       IN IF r4.res.tag # "Ok" THEN r4
       ELSE [self |-> r4.self, res |-> Ok(Unit)]

\* variant: the buffer is written without being cleared first
initialize_no_clear(self) ==
    LET r1 == set_oscillator(self, "On")
    IN IF r1.res.tag # "Ok" THEN r1
       ELSE LET r2 == set_display(r1.self, "Off", "Off")
       IN IF r2.res.tag # "Ok" THEN r2
       ELSE LET r3 == set_dimming(r2.self, MaxBrightness)
       IN IF r3.res.tag # "Ok" THEN r3
       ELSE LET r4 == write_display_buffer(r3.self)
       IN IF r4.res.tag # "Ok" THEN r4
       ELSE [self |-> r4.self, res |-> Ok(Unit)]

\* lib.rs 250-263
initialize(self) ==
    LET r1 == set_oscillator(self, "On")
    IN IF r1.res.tag # "Ok" THEN r1
       ELSE LET r2 == set_display(r1.self, "Off", "Off")
       IN IF r2.res.tag # "Ok" THEN r2
       ELSE LET r3 == set_dimming(r2.self, MaxBrightness)
       IN IF r3.res.tag # "Ok" THEN r3
       ELSE LET r4 == write_display_buffer(clear_display_buffer(r3.self))
       IN IF r4.res.tag # "Ok" THEN r4
       ELSE [self |-> r4.self, res |-> Ok(Unit)]

\* ------------------------------------------------------------------------
\* State
\* ------------------------------------------------------------------------
VARIABLES
    address,            \* HT16K33.address
    buffer,             \* HT16K33.buffer
    oscillator_state,   \* HT16K33.oscillator_state
    display_state,      \* HT16K33.display_state
    blink_state,        \* HT16K33.blink_state
    dimming_state,      \* HT16K33.dimming_state
    data_values,        \* HT16K33.i2c: I2cMock.data_values
    log,                \* the bus transactions of the last operation
    nops,               \* how many operations were called so far
    last                \* the last call: its name, arguments and result,
                        \* whether the call before it was a write_display_buffer
                        \* that returned Ok, and the shadow buffer it started from

shadow == <<buffer, oscillator_state, display_state, blink_state, dimming_state>>
config == <<oscillator_state, display_state, blink_state, dimming_state>>
driver == <<address, buffer, oscillator_state, display_state, blink_state,
            dimming_state, data_values, log>>
vars == <<address, buffer, oscillator_state, display_state, blink_state,
          dimming_state, data_values, log, nops, last>>

\* ------------------------------------------------------------------------
\* Inputs the operations are called with
\* ------------------------------------------------------------------------
\* device addresses the driver is constructed with
AddressInputs == {112}

\* register contents of the simulator when it is handed to HT16K33::new
\* (data_values is a public field: i2c_mock.rs 45, set in tests 303-304)
RegisterInputs ==
    {I2cMock_new, [I2cMock_new EXCEPT ![0] = 128, ![ROWS_SIZE - 1] = 129]}

\* (row, common) pairs offered to LedLocation::new: the first and the last
\* valid value of each, and the first invalid one
RowInputs == {0, ROWS_SIZE - 1, ROWS_SIZE}
CommonInputs == {0, COMMONS_SIZE - 1, COMMONS_SIZE}

\* Dimming values: the two named ones, one inside and one beyond 0..15
DimmingInputs == {MinBrightness, MaxBrightness, Brightness(9), Brightness(16)}

\* how many operations a run calls
MaxOps == 3

\* which bus transaction of an operation is refused (0: none)
FailAtOne == {0, 1}
FailAtInitialize == 0..4

\* the errors the bus may refuse the fail_at-th transaction with
ErrorsAt(fail_at) == IF fail_at = 0 THEN {"Nack"} ELSE BusErrors

\* ------------------------------------------------------------------------
\* Steps
\* ------------------------------------------------------------------------
\* the driver value, its bus log empty at the start of an operation
Self(fail_at, error) ==
    [address |-> address,
     i2c |-> [data_values |-> data_values, log |-> <<>>, fail_at |-> fail_at,
              error |-> error],
     buffer |-> buffer,
     oscillator_state |-> oscillator_state,
     display_state |-> display_state,
     blink_state |-> blink_state,
     dimming_state |-> dimming_state]

Call(op, args, res) ==
    [op |-> op, args |-> args, res |-> res,
     after_write |-> last.op = "write_display_buffer" /\ last.res.tag = "Ok",
     before |-> buffer]

\* an operation returned r: the driver is r.self afterwards
Return(op, args, r) ==
    /\ nops < MaxOps
    /\ nops' = nops + 1
    /\ address' = r.self.address
    /\ buffer' = r.self.buffer
    /\ oscillator_state' = r.self.oscillator_state
    /\ display_state' = r.self.display_state
    /\ blink_state' = r.self.blink_state
    /\ dimming_state' = r.self.dimming_state
    /\ data_values' = r.self.i2c.data_values
    /\ log' = r.self.i2c.log
    /\ last' = Call(op, args, r.res)

Init ==
    /\ \E a \in AddressInputs, regs \in RegisterInputs :
          LET self == HT16K33_new([data_values |-> regs, log |-> <<>>,
                                   fail_at |-> 0, error |-> "Nack"], a)
          IN /\ address = self.address
             /\ buffer = self.buffer
             /\ oscillator_state = self.oscillator_state
             /\ display_state = self.display_state
             /\ blink_state = self.blink_state
             /\ dimming_state = self.dimming_state
             /\ data_values = self.i2c.data_values
             /\ log = self.i2c.log
    /\ nops = 0
    /\ last = [op |-> "new", args |-> <<>>, res |-> Ok(Unit),
               after_write |-> FALSE, before |-> buffer]

Initialize ==
    \E f \in FailAtInitialize : \E e \in ErrorsAt(f) :
        Return("initialize", <<>>, initialize(Self(f, e)))

SetOscillator ==
    \E oscillator \in Oscillators, f \in FailAtOne : \E e \in ErrorsAt(f) :
        Return("set_oscillator", <<oscillator>>,
               set_oscillator(Self(f, e), oscillator))

SetDisplay ==
    \E display \in Displays, blink \in Blinks, f \in FailAtOne :
       \E e \in ErrorsAt(f) :
        Return("set_display", <<display, blink>>,
               set_display(Self(f, e), display, blink))

SetDimming ==
    \E dimming \in DimmingInputs, f \in FailAtOne : \E e \in ErrorsAt(f) :
        Return("set_dimming", <<dimming>>, set_dimming(Self(f, e), dimming))

UpdateDisplayBuffer ==
    \E row \in RowInputs, common \in CommonInputs, enabled \in BOOLEAN :
        LET location == lib_LedLocation_new(row, common)
        IN /\ location.tag = "Ok"
           /\ Return("update_display_buffer", <<location.value, enabled>>,
                     update_display_buffer(Self(0, "Nack"), location.value,
                                           enabled))

ClearDisplayBuffer ==
    Return("clear_display_buffer", <<>>,
           [self |-> clear_display_buffer(Self(0, "Nack")), res |-> Ok(Unit)])

SetLed ==
    \E row \in RowInputs, common \in CommonInputs, enabled \in BOOLEAN,
       f \in FailAtOne : \E e \in ErrorsAt(f) :
        LET location == lib_LedLocation_new(row, common)
        IN /\ location.tag = "Ok"
           /\ Return("set_led", <<location.value, enabled>>,
                     set_led(Self(f, e), location.value, enabled))

WriteDisplayBuffer ==
    \E f \in FailAtOne : \E e \in ErrorsAt(f) :
        Return("write_display_buffer", <<>>, write_display_buffer(Self(f, e)))

ReadDisplayBuffer ==
    \E f \in FailAtOne : \E e \in ErrorsAt(f) :
        Return("read_display_buffer", <<>>, read_display_buffer(Self(f, e)))

Next ==
    \/ Initialize
    \/ SetOscillator
    \/ SetDisplay
    \/ SetDimming
    \/ UpdateDisplayBuffer
    \/ ClearDisplayBuffer
    \/ SetLed
    \/ WriteDisplayBuffer
    \/ ReadDisplayBuffer

Spec == Init /\ [][Next]_vars

\* ------------------------------------------------------------------------
\* The accessors take &self: the driver they are called on is the driver
\* afterwards.  SpecAccessors is Spec with the accessors among the calls.
\* ------------------------------------------------------------------------
GetDisplayBuffer ==
    Return("get_display_buffer", <<>>,
           [self |-> Self(0, "Nack"),
            res |-> get_display_buffer(Self(0, "Nack"))])

GetOscillator ==
    Return("get_oscillator", <<>>,
           [self |-> Self(0, "Nack"), res |-> get_oscillator(Self(0, "Nack"))])

GetDisplay ==
    Return("get_display", <<>>,
           [self |-> Self(0, "Nack"), res |-> get_display(Self(0, "Nack"))])

GetDimming ==
    Return("get_dimming", <<>>,
           [self |-> Self(0, "Nack"), res |-> get_dimming(Self(0, "Nack"))])

NextAccessors ==
    \/ Next
    \/ GetDisplayBuffer
    \/ GetOscillator
    \/ GetDisplay
    \/ GetDimming

SpecAccessors == Init /\ [][NextAccessors]_vars

\* ------------------------------------------------------------------------
\* destroy takes self by value: the driver it is called on is gone, no
\* method of it can be called afterwards.  SpecDestroy is Spec with destroy
\* among the calls.
\* ------------------------------------------------------------------------
\* variant: destroy borrows the driver, which stays usable
Destroyed_borrowed == FALSE

Destroyed == last.op = "destroy"

Destroy ==
    /\ ~Destroyed
    /\ nops < MaxOps
    /\ nops' = nops + 1
    /\ LET i2c == destroy(Self(0, "Nack"))
       IN /\ data_values' = i2c.data_values
          /\ log' = i2c.log
          /\ last' = Call("destroy", <<>>,
                          [data_values |-> i2c.data_values])
    /\ UNCHANGED <<address, buffer, config>>

NextDestroy ==
    \/ ~Destroyed /\ Next
    \/ Destroy

SpecDestroy == Init /\ [][NextDestroy]_vars

\* ------------------------------------------------------------------------
\* The register simulator called directly, as its own tests do
\* (i2c_mock.rs 185-432): SpecMock is a simulator with the registers of
\* RegisterInputs, then up to MaxOps calls of write and write_read.  A call
\* that indexes outside the registers aborts the program: nothing follows it.
\* ------------------------------------------------------------------------
\* the first byte of a transaction: the first, a middle and the last
\* register, and the first value beyond them
MockAddressInputs == {0, 5, ROWS_SIZE - 1, ROWS_SIZE}

\* the data bytes of a write: none, one, two, three, and one more than there
\* are registers
MockDataInputs ==
    {<<>>, <<1>>, <<170, 187>>, <<1, 2, 3>>,
     <<1, 2, 3, 4, 5, 6, 7, 8, 9, 10, 11, 12, 13, 14, 15, 16, 17>>}

\* the bytes of a transaction: an address byte and data, or nothing at all
MockBytesInputs ==
    {<<>>} \cup {<<a>> \o data : a \in MockAddressInputs,
                                data \in MockDataInputs}

\* the length of the buffer handed to write_read
MockBufferInputs == {0, 1, 4, ROWS_SIZE, ROWS_SIZE + 1}

Aborted == last.res = Panic

\* struct I2cMock (i2c_mock.rs 43-47): all the simulator keeps between calls
\* is data_values (the logger holds no simulator state)
I2cMock_state == [data_values |-> data_values]

MockReturn(op, args, registers, res) ==
    /\ ~Aborted
    /\ nops < MaxOps
    /\ nops' = nops + 1
    /\ data_values' = registers
    /\ last' = Call(op, args, res)
    /\ UNCHANGED <<address, buffer, config, log>>

MockWrite ==
    \E device \in AddressInputs, bytes \in MockBytesInputs :
        LET w == I2cMock_write(data_values, bytes)
        IN MockReturn("I2cMock::write", <<device, bytes>>, w.data_values,
                      IF w.tag = "Ok" THEN Ok(Unit) ELSE Panic)

MockWriteRead ==
    \E device \in AddressInputs, n \in MockBufferInputs,
       bytes \in {<<>>} \cup {<<a>> : a \in MockAddressInputs} :
        LET r == I2cMock_write_read(data_values, bytes, n)
        IN MockReturn("I2cMock::write_read", <<device, bytes, n>>,
                      data_values,
                      IF r.tag = "Ok" THEN Ok(r.buffer) ELSE Panic)

NextMock ==
    \/ MockWrite
    \/ MockWriteRead

SpecMock == Init /\ [][NextMock]_vars

\* ------------------------------------------------------------------------
\* The validating constructors, applied to every u8 argument.  They are
\* associated functions: they take no driver and touch none.  A run of
\* SpecTypes draws the arguments, then applies one constructor to them.
\* ------------------------------------------------------------------------
InitTypes ==
    /\ Init
    /\ data_values = I2cMock_new

Arguments ==
    /\ last.op = "new"
    /\ \E row \in U8, common \in U8 :
          last' = [op |-> "arguments", args |-> <<row, common>>,
                   res |-> Ok(Unit), after_write |-> FALSE,
                   before |-> buffer]
    /\ UNCHANGED <<driver, nops>>

LedLocationNew ==
    /\ last.op = "arguments"
    /\ last' = Call("LedLocation::new", last.args,
                    LedLocation_new(last.args[1], last.args[2]))
    /\ UNCHANGED <<driver, nops>>

LibLedLocationNew ==
    /\ last.op = "arguments"
    /\ last' = Call("lib::LedLocation::new", last.args,
                    lib_LedLocation_new(last.args[1], last.args[2]))
    /\ UNCHANGED <<driver, nops>>

DimmingFromU8 ==
    /\ last.op = "arguments"
    /\ last' = Call("Dimming::from_u8", <<last.args[1]>>,
                    Dimming_from_u8(last.args[1]))
    /\ UNCHANGED <<driver, nops>>

LibDimmingFromU8 ==
    /\ last.op = "arguments"
    /\ last' = Call("lib::Dimming::from_u8", <<last.args[1]>>,
                    lib_Dimming_from_u8(last.args[1]))
    /\ UNCHANGED <<driver, nops>>

\* LedLocation::default takes no argument and returns a location, not a
\* Result
LedLocationDefault ==
    /\ last.op = "new"
    /\ last' = Call("LedLocation::default", <<>>, LedLocation_default)
    /\ UNCHANGED <<driver, nops>>

\* the methods of a location LedLocation::new returned
CommonAsIndex ==
    /\ last.op = "LedLocation::new"
    /\ last.res.tag = "Ok"
    /\ last' = Call("common_as_index", <<last.res.value>>,
                    LedLocation_common_as_index(last.res.value))
    /\ UNCHANGED <<driver, nops>>

CommonAsIndexOnChip ==
    /\ last.op = "LedLocation::new"
    /\ last.res.tag = "Ok"
    /\ last' = Call("common_as_index_on_chip", <<last.res.value>>,
                    LedLocation_common_as_index_on_chip(last.res.value))
    /\ UNCHANGED <<driver, nops>>

\* set_led on the new driver with a location the LedLocation::new of lib.rs
\* returned
SetLedAt ==
    /\ last.op = "lib::LedLocation::new"
    /\ last.res.tag = "Ok"
    /\ \E enabled \in BOOLEAN :
          Return("set_led", <<last.res.value, enabled>>,
                 set_led(Self(0, "Nack"), last.res.value, enabled))

NextTypes ==
    \/ Arguments
    \/ LedLocationNew
    \/ LibLedLocationNew
    \/ DimmingFromU8
    \/ LibDimmingFromU8
    \/ LedLocationDefault
    \/ CommonAsIndex
    \/ CommonAsIndexOnChip
    \/ SetLedAt

SpecTypes == InitTypes /\ [][NextTypes]_vars

\* ------------------------------------------------------------------------
\* Properties
\* ------------------------------------------------------------------------
\* the call that ended in this state
Returned(op) == last.op = op
Succeeded(op) == last.op = op /\ last.res.tag = "Ok"

\* a write transaction of the driver's device carrying exactly these bytes
IsWriteTo(t, device, bytes) ==
    /\ t.kind = "write"
    /\ t.address = device
    /\ t.bytes = bytes
    /\ t.out = <<>>

IsWrite(t, bytes) == IsWriteTo(t, address, bytes)

\* bit k of byte b
Bit(b, k) == (b \div (2 ^ k)) % 2

\* byte b with bit c set (on) or cleared (off), every other bit kept
WithBit(b, c, on) ==
    IF on THEN (IF Bit(b, c) = 1 THEN b ELSE b + 2 ^ c)
    ELSE (IF Bit(b, c) = 1 THEN b - 2 ^ c ELSE b)

\* sixteen zero bytes behind the base address 0x00
ZeroFrame == <<0, 0, 0, 0, 0, 0, 0, 0, 0, 0, 0, 0, 0, 0, 0, 0, 0>>

\* C1: whatever the driver state before, an initialize() that returns Ok has
\* issued exactly four bus transactions, all writes, in this order: [0x21]
\* (oscillator on), [0x80] (display off, blink off), [0xEF] (dimming max) and
\* the 17 bytes [0x00, 0, ..., 0].
C1_InitializeWrites ==
    Succeeded("initialize") =>
        /\ Len(log) = 4
        /\ IsWrite(log[1], <<33>>)
        /\ IsWrite(log[2], <<128>>)
        /\ IsWrite(log[3], <<239>>)
        /\ IsWrite(log[4], ZeroFrame)
        /\ \A i \in 1..4 : log[i].tag = "Ok"

\* initialize() returned Ok as the third operation of a run
C1_Witness ==
    /\ Succeeded("initialize")
    /\ nops = 3
    /\ Len(log) = 4

\* the one-byte command a setter's argument stands for
OscillatorByte(oscillator) == IF oscillator = "On" THEN 33 ELSE 32

DisplayByte(display, blink) ==
    128 + (IF display = "On" THEN 1 ELSE 0)
        + (CASE blink = "Off" -> 0
             [] blink = "TwoHz" -> 2
             [] blink = "OneHz" -> 4
             [] blink = "HalfHz" -> 6)

DimmingBits(dimming) ==
    CASE dimming.tag = "MinBrightness" -> 0
      [] dimming.tag = "MaxBrightness" -> 15
      [] dimming.tag = "Brightness" -> dimming.v

\* C2: a call of set_oscillator, set_display or set_dimming, whether the bus
\* accepts it or not, leaves its argument in the shadow field and has issued
\* exactly one transaction: a write of the single byte 0x20|osc,
\* 0x80|display|blink or 0xE0|brightness.
C2_SetterCommand ==
    /\ Returned("set_oscillator") =>
          /\ oscillator_state = last.args[1]
          /\ Len(log) = 1
          /\ IsWrite(log[1], <<OscillatorByte(last.args[1])>>)
    /\ Returned("set_display") =>
          /\ display_state = last.args[1]
          /\ blink_state = last.args[2]
          /\ Len(log) = 1
          /\ IsWrite(log[1], <<DisplayByte(last.args[1], last.args[2])>>)
    /\ Returned("set_dimming") =>
          /\ dimming_state = last.args[1]
          /\ Len(log) = 1
          /\ IsWrite(log[1], <<BitOr(224, DimmingBits(last.args[1]))>>)

\* set_display(On, HalfHz) was called: the byte carries display and blink bits
C2_Witness ==
    /\ Returned("set_display")
    /\ last.args = <<"On", "HalfHz">>
    /\ log[1].bytes = <<135>>

\* C3: set_led(location, enabled) applies update_display_buffer to the shadow
\* buffer and then issues exactly one transaction, a write of the two bytes
\* [row, buffer[row]] where buffer[row] is the row's value after the update.
C3_SetLedWrite ==
    [][last'.op = "set_led" =>
         LET row == last'.args[1].row
             common == last'.args[1].common
         IN /\ buffer' = [buffer EXCEPT ![row] = WithBit(@, common, last'.args[2])]
            /\ Len(log') = 1
            /\ IsWriteTo(log'[1], address', <<row, buffer'[row]>>)]_vars

\* set_led wrote a row in which another LED was already on
C3_Witness ==
    /\ Succeeded("set_led")
    /\ last.args = <<[row |-> 15, common |-> 0], TRUE>>
    /\ buffer[15] = 129
    /\ log[1].bytes = <<15, 129>>

\* C4: write_display_buffer() issues exactly one transaction, a write of 17
\* bytes: byte 0 is the base address 0x00 and byte i+1 is buffer[i] for every
\* i in 0..16; the shadow buffer and the shadow configuration are unchanged.
C4_WriteDisplayBuffer ==
    [][last'.op = "write_display_buffer" =>
         /\ Len(log') = 1
         /\ log'[1].kind = "write"
         /\ log'[1].address = address
         /\ Len(log'[1].bytes) = 17
         /\ At(log'[1].bytes, 0) = 0
         /\ \A i \in 0..15 : At(log'[1].bytes, i + 1) = buffer[i]
         /\ UNCHANGED shadow]_vars

\* a buffer with LEDs on in its first and its last row was written
C4_Witness ==
    /\ Succeeded("write_display_buffer")
    /\ buffer[0] = 128
    /\ buffer[15] = 1
    /\ Len(log[1].bytes) = 17

\* C5: read_display_buffer() issues exactly one transaction, a write_read
\* that writes [0x00] and asks for 16 bytes; when it returns Ok, buffer[i] is
\* the i-th byte returned for every i in 0..16, whatever it held before; the
\* shadow configuration is unchanged.
C5_ReadDisplayBuffer ==
    [][last'.op = "read_display_buffer" =>
         /\ Len(log') = 1
         /\ log'[1].kind = "write_read"
         /\ log'[1].address = address
         /\ log'[1].bytes = <<0>>
         /\ log'[1].len = 16
         /\ last'.res.tag = "Ok" =>
               /\ Len(log'[1].out) = 16
               /\ \A i \in 0..15 : buffer'[i] = At(log'[1].out, i)
         /\ UNCHANGED config]_vars

\* the second operation of a run was a read that returned the registers the
\* simulator was constructed with, and the buffer holds them
C5_Witness ==
    /\ Succeeded("read_display_buffer")
    /\ nops = 2
    /\ log[1].out[1] = 128
    /\ buffer[0] = 128
    /\ buffer[15] = 129

\* C6: write_display_buffer() immediately followed by read_display_buffer(),
\* both returning Ok, on the register simulator: the write leaves the shadow
\* buffer as it was, and after the read the shadow buffer equals that value
\* again, whatever the buffer and the simulator's registers held before.
C6_WriteReadRoundTrip ==
    [][/\ last'.op = "write_display_buffer" => buffer' = buffer
       /\ (/\ Succeeded("write_display_buffer")
           /\ last'.op = "read_display_buffer"
           /\ last'.res.tag = "Ok") => buffer' = buffer]_vars

\* update, write, read: the read right after the write returned Ok and the
\* buffer holds the updated row 0 and a zero row 15
C6_Witness ==
    /\ Succeeded("read_display_buffer")
    /\ last.after_write
    /\ buffer[0] = 1
    /\ buffer[15] = 0
    /\ nops = 3

\* C7: update_display_buffer(location, enabled) issues no bus transaction,
\* returns Ok, and changes the shadow state in the one bit (row, common) only:
\* that bit equals enabled afterwards, the other bits of the row, the other
\* rows, the shadow configuration and the device registers are unchanged.
C7_UpdateDisplayBuffer ==
    [][last'.op = "update_display_buffer" =>
         LET row == last'.args[1].row
             common == last'.args[1].common
             enabled == last'.args[2]
         IN /\ log' = <<>>
            /\ last'.res = Ok(Unit)
            /\ Bit(buffer'[row], common) = (IF enabled THEN 1 ELSE 0)
            /\ \A c \in 0..7 : c # common =>
                  Bit(buffer'[row], c) = Bit(buffer[row], c)
            /\ \A r \in 0..15 : r # row => buffer'[r] = buffer[r]
            /\ UNCHANGED <<config, data_values>>]_vars

\* LED (0, 7) was enabled by the third operation, next to LED (0, 0)
C7_Witness ==
    /\ Returned("update_display_buffer")
    /\ last.args = <<[row |-> 0, common |-> 7], TRUE>>
    /\ nops = 3
    /\ buffer[0] = 129

\* C8: clear_display_buffer() sets all 16 shadow buffer words to zero whatever
\* they held, issues no bus transaction and leaves the shadow configuration
\* and the device registers unchanged.
C8_ClearDisplayBuffer ==
    [][last'.op = "clear_display_buffer" =>
         /\ \A r \in 0..15 : buffer'[r] = 0
         /\ log' = <<>>
         /\ UNCHANGED <<config, data_values>>]_vars

\* the buffer was cleared while the device still shows LEDs in the last row
C8_Witness ==
    /\ Returned("clear_display_buffer")
    /\ nops = 2
    /\ data_values[15] = 1
    /\ buffer[15] = 0

\* the error LedLocation::new and Dimming::from_u8 report
ValueTooLarge(name, value, limit, inclusive) ==
    [tag |-> "Err",
     value |-> [kind |-> "ValueTooLarge", name |-> name, value |-> value,
                limit |-> limit, inclusive |-> inclusive]]

\* C9: for all u8 row and common, LedLocation::new(row, common) returns Ok
\* exactly when row < 16 and common < 8; with row >= 16 it fails with
\* ValueTooLarge{row, value: row, limit: 16, inclusive: false}, also when
\* common is out of range too; with row < 16 and common >= 8 it fails with
\* ValueTooLarge{common, value: common, limit: 8, inclusive: false}; a
\* location it returns holds the single row bit 1 << row and the common value.
\* (The LedLocation::new of lib.rs accepts the same arguments and keeps them.)
C9_LedLocationNew ==
    /\ Returned("lib::LedLocation::new") =>
          LET row == last.args[1]
              common == last.args[2]
          IN /\ last.res.tag = "Ok" <=> (row < 16 /\ common < 8)
             /\ last.res.tag = "Ok" =>
                   last.res.value = [row |-> row, common |-> common]
    /\ Returned("LedLocation::new") =>
        LET row == last.args[1]
            common == last.args[2]
        IN /\ last.res.tag = "Ok" <=> (row < 16 /\ common < 8)
           /\ row >= 16 => last.res = ValueTooLarge("row", row, 16, FALSE)
           /\ (row < 16 /\ common >= 8) =>
                 last.res = ValueTooLarge("common", common, 8, FALSE)
           /\ last.res.tag = "Ok" =>
                 /\ last.res.value.row = 2 ^ row
                 /\ last.res.value.common = common
                 /\ last.res.value.common \in 0..7
                 /\ \E r \in 0..15 : last.res.value.row = 2 ^ r

\* LedLocation::new(16, 8), both out of range, reported the row
C9_Witness ==
    /\ Returned("LedLocation::new")
    /\ last.args = <<16, 8>>
    /\ last.res.tag = "Err"
    /\ last.res.value.name = "row"

\* C10: for all u8 v, Dimming::from_u8(v) returns a Dimming with bits = v when
\* v <= 15 and fails with ValueTooLarge{value: v, limit: 15, inclusive: true}
\* when v >= 16; the call leaves the driver and the device as they were.
\* (The Dimming::from_u8 of lib.rs accepts the same values, returns
\* Brightness(v) and reports v and the limit 15 in its error.)
C10_DimmingFromU8 ==
    [][/\ last'.op = "Dimming::from_u8" =>
            LET v == last'.args[1]
            IN /\ v <= 15 => last'.res = [tag |-> "Ok", value |-> [bits |-> v]]
               /\ v >= 16 => last'.res = ValueTooLarge("Dimming", v, 15, TRUE)
               /\ UNCHANGED driver
       /\ last'.op = "lib::Dimming::from_u8" =>
            LET v == last'.args[1]
            IN /\ last'.res.tag = "Ok" <=> v <= 15
               /\ v <= 15 => last'.res.value = [tag |-> "Brightness", v |-> v]
               /\ v >= 16 => (last'.res.value.value = v
                               /\ last'.res.value.limit = 15)
               /\ UNCHANGED driver]_vars

\* Dimming::from_u8(16) failed
C10_Witness ==
    /\ Returned("Dimming::from_u8")
    /\ last.args = <<16>>
    /\ last.res.tag = "Err"
    /\ last.res.value.limit = 15

\* C11: set_led(location, true) immediately followed by set_led(location,
\* false), whether the bus accepts the writes or not: when the LED's bit was
\* clear before the two calls the shadow buffer is afterwards what it was
\* before them; when the bit was set, the buffer afterwards is the buffer
\* before with that one bit cleared (set_led sets and clears, it does not
\* toggle).
C11_SetLedOnOff ==
    [][(/\ last.op = "set_led"
        /\ last.args[2] = TRUE
        /\ last'.op = "set_led"
        /\ last'.args = <<last.args[1], FALSE>>) =>
            LET row == last.args[1].row
                common == last.args[1].common
            IN /\ Bit(last.before[row], common) = 0 => buffer' = last.before
               /\ buffer' = [last.before EXCEPT
                                ![row] = WithBit(@, common, FALSE)]]_vars

\* the claim as stated: the two calls restore the buffer whatever the LED's
\* bit was before them
C11_AsClaimed ==
    [][(/\ last.op = "set_led"
        /\ last.args[2] = TRUE
        /\ last'.op = "set_led"
        /\ last'.args = <<last.args[1], FALSE>>) =>
            buffer' = last.before]_vars

\* the third operation switched LED (0, 0) off again in a row whose LED
\* (0, 7) is on: the row went from 0x81 back to 0x80
C11_Witness ==
    /\ Returned("set_led")
    /\ last.args = <<[row |-> 0, common |-> 0], FALSE>>
    /\ nops = 3
    /\ last.before[0] = 129
    /\ buffer[0] = 128

\* the four writes of initialize(), in the order it issues them
InitializeWrites == <<(<<33>>), (<<128>>), (<<239>>), ZeroFrame>>

\* C12: an initialize() that returns an error has issued k transactions for
\* some k in 1..4: the first k of its four writes, in order, of which the
\* first k - 1 were accepted and the k-th was refused; the error returned is
\* the error of that refusal, and nothing was issued after it (no later write
\* and no second attempt).  An initialize() that returns Ok was refused none.
C12_InitializeAborts ==
    Returned("initialize") =>
        /\ last.res.tag \in {"Ok", "Err"}
        /\ last.res.tag = "Ok" => \A i \in 1..Len(log) : log[i].tag = "Ok"
        /\ last.res.tag = "Err" =>
              LET k == Len(log)
              IN /\ k \in 1..4
                 /\ \A i \in 1..k : IsWrite(log[i], InitializeWrites[i])
                 /\ \A i \in 1..(k - 1) : log[i].tag = "Ok"
                 /\ log[k].tag = "Err"
                 /\ log[k].error \in BusErrors
                 /\ last.res = Err(log[k].error)

\* initialize() was refused its third write, the dimming command, with an
\* arbitration loss
C12_Witness ==
    /\ Returned("initialize")
    /\ last.res = Err("ArbitrationLoss")
    /\ Len(log) = 3
    /\ log[3].bytes = <<239>>
    /\ log[3].tag = "Err"

\* C13: a set_oscillator, set_display or set_dimming whose write the bus
\* refuses returns the error of the refusal, and the shadow field holds the
\* requested value all the same (it does not go back to the value before the
\* call), although the one write it issued was refused.
C13_SetterFailureKeepsShadow ==
    (/\ last.op \in {"set_oscillator", "set_display", "set_dimming"}
     /\ last.res.tag # "Ok") =>
        /\ Len(log) = 1
        /\ log[1].tag = "Err"
        /\ last.res = Err(log[1].error)
        /\ last.op = "set_oscillator" => oscillator_state = last.args[1]
        /\ last.op = "set_display" =>
              (display_state = last.args[1] /\ blink_state = last.args[2])
        /\ last.op = "set_dimming" => dimming_state = last.args[1]
        /\ buffer = last.before

\* the first operation, set_oscillator(On), was refused: the driver starts
\* with the oscillator Off and now reports On
C13_Witness ==
    /\ Returned("set_oscillator")
    /\ nops = 1
    /\ last.args = <<"On">>
    /\ last.res = Err("Nack")
    /\ oscillator_state = "On"

\* the operations that talk to the bus, and those that do not
BusOperations ==
    {"set_oscillator", "set_display", "set_dimming", "set_led",
     "write_display_buffer", "read_display_buffer"}
LocalOperations == {"update_display_buffer", "clear_display_buffer"}

\* C14: each of set_oscillator, set_display, set_dimming, set_led,
\* write_display_buffer and read_display_buffer issues exactly one bus
\* transaction; when the bus refuses it with error e the operation returns
\* Err(e), that same e, and when the bus accepts it the operation returns Ok.
\* update_display_buffer and clear_display_buffer issue none and never return
\* an error.
C14_ErrorPassThrough ==
    /\ last.op \in BusOperations =>
          /\ Len(log) = 1
          /\ log[1].tag \in {"Ok", "Err"}
          /\ log[1].tag = "Err" =>
                (log[1].error \in BusErrors /\ last.res = Err(log[1].error))
          /\ log[1].tag = "Ok" => last.res = Ok(Unit)
    /\ last.op \in LocalOperations =>
          /\ log = <<>>
          /\ last.res = Ok(Unit)

\* set_led was refused with an arbitration loss and returned it
C14_Witness ==
    /\ Returned("set_led")
    /\ Len(log) = 1
    /\ log[1].error = "ArbitrationLoss"
    /\ last.res = Err("ArbitrationLoss")

\* the valid coordinates
Rows == 0..(ROWS_SIZE - 1)
Commons == 0..(COMMONS_SIZE - 1)

\* the row of a location of types/led_location.rs: the position of the one
\* bit of its row mask
RowOf(location) == CHOOSE r \in Rows : 2 ^ r = location.row

\* the (register address, bit mask) pair set_led sends for a coordinate when
\* no other LED is on
RowAddressed(row, common) ==
    LET location == [row |-> row, common |-> common]
        fresh == HT16K33_new([data_values |-> I2cMock_new, log |-> <<>>,
                              fail_at |-> 0, error |-> "Nack"], 112)
    IN led_command(update_display_buffer(fresh, location, TRUE).self,
                   location)

\* the (device offset, bit) pair of a coordinate in the packed layout
CommonAddressed(row, common) ==
    LET location == LedLocation_new(row, common).value
    IN <<LedLocation_common_as_index_on_chip(location),
         LedLocation_bit_on_chip(location)>>

\* C15: both layouts map the valid coordinates one-to-one.  Row-addressed:
\* set_led(location, true) on a cleared buffer sends (address, mask) =
\* (row, 1 << common), no other valid coordinate gives that pair, and row and
\* common are read back from it.  Common-addressed, packed: a location
\* resolves to (offset, bit) = (common*2 + (1 if row >= 8 else 0), row mod 8),
\* no other valid coordinate gives that pair, and common = offset / 2 and
\* row = bit + 8 * (offset mod 2) are read back from it.
C15_CoordinateBijection ==
    /\ (Returned("set_led") /\ last.args[2] = TRUE /\ nops = 1) =>
          LET location == last.args[1]
              pair == log[1].bytes
          IN /\ pair = <<location.row, 2 ^ location.common>>
             /\ pair = RowAddressed(location.row, location.common)
             /\ \A r \in Rows, c \in Commons :
                   RowAddressed(r, c) = pair =>
                      (r = location.row /\ c = location.common)
    /\ Returned("common_as_index_on_chip") =>
          LET location == last.args[1]
              pair == <<last.res, LedLocation_bit_on_chip(location)>>
              row == RowOf(location)
          IN /\ pair = <<2 * location.common + (IF row >= 8 THEN 1 ELSE 0),
                         row % 8>>
             /\ location.common = pair[1] \div 2
             /\ row = pair[2] + 8 * (pair[1] % 2)
             /\ \A r \in Rows, c \in Commons :
                   CommonAddressed(r, c) = pair =>
                      (r = row /\ c = location.common)

\* the location of row 8, common 1 resolved to offset 3, where row 0 of
\* common 1 would be at offset 2 and row 8 of common 0 at offset 1
C15_Witness ==
    /\ Returned("common_as_index_on_chip")
    /\ last.args[1] = [row |-> 256, common |-> 1]
    /\ last.res = 3

\* C16: for a location LedLocation::new(row, common) returned,
\* common_as_index_on_chip() is common*2 when row < 8 and common*2 + 1 when
\* row >= 8, always in 0..16, and common_as_index() is common.
C16_CommonAsIndexOnChip ==
    /\ Returned("common_as_index_on_chip") =>
          LET row == RowOf(last.args[1])
              common == last.args[1].common
          IN /\ row < 8 => last.res = common * 2
             /\ row >= 8 => last.res = common * 2 + 1
             /\ last.res \in 0..(ROWS_SIZE - 1)
    /\ Returned("common_as_index") => last.res = last.args[1].common

\* the location of row 8, common 7 is at the last device byte
C16_Witness ==
    /\ Returned("common_as_index_on_chip")
    /\ last.args[1] = [row |-> 256, common |-> 7]
    /\ last.res = 15

\* C17: whatever argument a setter is called with, the state bits it encodes
\* share no bit with the command prefix and the byte it sends stays in the
\* group's range: 0x20..0x21 for set_oscillator, 0x80..0x87 for set_display,
\* 0xE0..0xEF for set_dimming (any Dimming a caller can build included).
C17_StateBitsInPayload ==
    /\ Returned("set_oscillator") =>
          /\ BitAnd(Oscillator_value(last.args[1]), SYSTEM_SET) = 0
          /\ log[1].bytes[1] \in 32..33
    /\ Returned("set_display") =>
          /\ BitAnd(BitOr(Display_value(last.args[1]),
                          Blink_value(last.args[2])), DISPLAY_SET) = 0
          /\ log[1].bytes[1] \in 128..135
    /\ Returned("set_dimming") =>
          /\ BitAnd(lib_Dimming_value(last.args[1]), DIMMING_SET) = 0
          /\ log[1].bytes[1] \in 224..239

\* the two-bit blink code of the data sheet
BlinkCode(blink) ==
    CASE blink = "Off" -> 0
      [] blink = "HalfHz" -> 3
      [] blink = "OneHz" -> 2
      [] blink = "TwoHz" -> 1

\* C18: the byte set_display(display, blink) sends is 0x80 | d | (b << 1),
\* d = 1 for display on and 0 for off, b = 00 for blink off, 11 for 0.5 Hz,
\* 10 for 1 Hz, 01 for 2 Hz; none of the other seven (display, blink)
\* arguments encodes to the same byte.
C18_DisplayByte ==
    Returned("set_display") =>
        LET d == IF last.args[1] = "On" THEN 1 ELSE 0
            b == BlinkCode(last.args[2])
            byte == log[1].bytes[1]
        IN /\ Len(log[1].bytes) = 1
           /\ byte = 128 + d + 2 * b
           /\ \A display \in Displays, blink \in Blinks :
                 display_command([display_state |-> display,
                                  blink_state |-> blink]) = <<byte>> =>
                    <<display, blink>> = last.args

\* set_display(Off, HalfHz) sent 0x86
C18_Witness ==
    /\ Returned("set_display")
    /\ last.args = <<"Off", "HalfHz">>
    /\ log[1].bytes = <<134>>

Accessors ==
    {"get_display_buffer", "get_oscillator", "get_display", "get_dimming"}

\* C19: HT16K33::new issues no bus transaction and leaves the registers of
\* the bus it is given alone; right after it the accessors report 16 zero
\* buffer bytes, oscillator Off, display Off, blink Off and the dimming
\* MaxBrightness, whose value is 15.  In every state an accessor returns the
\* shadow field it names, issues no transaction and changes neither the
\* driver nor the device.
C19_NewAndAccessors ==
    [][/\ last.op = "new" =>
            /\ log = <<>>
            /\ data_values \in RegisterInputs
            /\ (last'.op = "get_display_buffer") =>
                   last'.res = [i \in 0..15 |-> 0]
            /\ (last'.op = "get_oscillator") => last'.res = "Off"
            /\ (last'.op = "get_display") => last'.res = <<"Off", "Off">>
            /\ (last'.op = "get_dimming") =>
                   (last'.res = MaxBrightness
                      /\ lib_Dimming_value(last'.res) = 15)
       /\ last'.op \in Accessors =>
            /\ log' = <<>>
            /\ UNCHANGED <<address, buffer, config, data_values>>
            /\ (last'.op = "get_display_buffer") => last'.res = buffer
            /\ (last'.op = "get_oscillator") => last'.res = oscillator_state
            /\ (last'.op = "get_display") =>
                   last'.res = <<display_state, blink_state>>
            /\ (last'.op = "get_dimming") => last'.res = dimming_state]_vars

\* get_dimming() right after new, on a bus whose registers are not zero
C19_Witness ==
    /\ Returned("get_dimming")
    /\ nops = 1
    /\ last.res = MaxBrightness
    /\ data_values[0] = 128
    /\ buffer[0] = 0

\* the data byte of bytes that lands last on register i, when the address
\* byte is a: the j-th data byte goes to register (a + j - 1) mod 16
LandsOn(bytes, i) ==
    {j \in 1..(Len(bytes) - 1) : (bytes[1] + j - 1) % 16 = i}
LastOn(bytes, i) ==
    CHOOSE j \in LandsOn(bytes, i) : \A m \in LandsOn(bytes, i) : m <= j

C22_OneByteWriteDiscarded ==
    [][/\ (last'.op = "I2cMock::write" /\ Len(last'.args[2]) = 1) =>
            /\ last'.res = Ok(Unit)
            /\ UNCHANGED I2cMock_state
       /\ (/\ last.op = "I2cMock::write"
           /\ Len(last.args[2]) = 1
           /\ last'.op = "I2cMock::write_read"
           /\ Len(last'.args[2]) = 1
           /\ last'.args[2][1] \in 0..15
           /\ last'.args[3] > 0) =>
               last'.res.value[1] = data_values[last'.args[2][1]]]_vars

\* the claim as stated: the simulator holds a cursor that is 0 after
\* construction and that a one-byte write [b] sets to b without changing a
\* register; so the first call on a new simulator, when it is a one-byte
\* write of a b other than 0, changes what the simulator holds (the cursor)
\* and no register
C22_AsClaimed ==
    [][(/\ last.op = "new"
        /\ last'.op = "I2cMock::write"
        /\ Len(last'.args[2]) = 1
        /\ last'.args[2][1] # 0) =>
            /\ I2cMock_state' # I2cMock_state
            /\ UNCHANGED data_values]_vars

\* write([5]) on registers that are not zero, then write_read([15], out[1]),
\* which returned register 15
C22_Witness ==
    /\ Returned("I2cMock::write_read")
    /\ nops = 2
    /\ last.args[2] = <<15>>
    /\ last.args[3] = 1
    /\ data_values[5] = 0
    /\ last.res = Ok(<<129>>)

\* C23: every write and every write_read on the simulator returns Ok,
\* whatever the registers, the device id, the bytes (none at all, or a first
\* byte of 16 or more, included) and the length of the output buffer: no call
\* returns an error and none aborts on an index outside the registers.
C23_MockNeverFails ==
    last.op \in {"I2cMock::write", "I2cMock::write_read"} =>
        last.res.tag = "Ok"

\* C24: destroy() issues no bus transaction and returns the bus as the
\* operations before it left it (right after new: as it was handed to new,
\* with nothing sent to it); no call on the driver follows a destroy.
C24_Destroy ==
    [][/\ last'.op = "destroy" =>
            /\ log' = <<>>
            /\ UNCHANGED data_values
            /\ last'.res = [data_values |-> data_values]
            /\ last.op = "new" =>
                  (log = <<>> /\ data_values \in RegisterInputs)
       /\ last.op # "destroy"]_vars

\* two LEDs of row 0 were set and sent, then the driver was destroyed: the
\* bus handed back holds them
C24_Witness ==
    /\ Returned("destroy")
    /\ nops = 3
    /\ last.res.data_values[0] = 129
    /\ last.res.data_values[15] = 0

\* C25: whether the bus accepts its write or not, set_oscillator leaves
\* display, blink, dimming and the buffer unchanged, set_display leaves
\* oscillator, dimming and the buffer unchanged, set_dimming leaves
\* oscillator, display, blink and the buffer unchanged, and set_led,
\* update_display_buffer, clear_display_buffer, write_display_buffer and
\* read_display_buffer leave oscillator, display, blink and dimming
\* unchanged.
C25_SetterFrames ==
    [][/\ last'.op = "set_oscillator" =>
            UNCHANGED <<display_state, blink_state, dimming_state, buffer>>
       /\ last'.op = "set_display" =>
            UNCHANGED <<oscillator_state, dimming_state, buffer>>
       /\ last'.op = "set_dimming" =>
            UNCHANGED <<oscillator_state, display_state, blink_state, buffer>>
       /\ last'.op \in {"set_led", "update_display_buffer",
                        "clear_display_buffer", "write_display_buffer",
                        "read_display_buffer"} =>
            UNCHANGED config]_vars

\* set_dimming(Brightness(9)) on a driver that blinks at 2 Hz with two LEDs
\* of row 0 in its buffer
C25_Witness ==
    /\ Returned("set_dimming")
    /\ last.args = <<Brightness(9)>>
    /\ nops = 3
    /\ blink_state = "TwoHz"
    /\ display_state = "On"
    /\ buffer[0] = 128

\* the registers a transaction touches: the write of an address byte and k
\* data bytes touches k registers from the address on, the read of len
\* bytes touches len (a lone command byte touches none)
IsRam(t) == t.kind = "write_read" \/ Len(t.bytes) > 1
Touched(t) == IF t.kind = "write_read" THEN t.len ELSE Len(t.bytes) - 1
InsideRam(t) ==
    /\ Len(t.bytes) >= 1
    /\ t.bytes[1] \in Rows
    /\ t.bytes[1] + Touched(t) <= ROWS_SIZE

\* C26: every RAM transaction the driver issues stays inside the 16
\* registers: its address byte is one of 0..15 and the registers it touches
\* end at register 15 at the latest, so the simulator neither wraps around
\* nor indexes outside its registers (no transaction aborts); a set_led
\* issues at most one write, of the row's address and one data byte;
\* write_display_buffer one write of address 0 and 16 data bytes;
\* read_display_buffer one read of 16 bytes from address 0.
C26_InsideRam ==
    /\ \A i \in 1..Len(log) :
          /\ log[i].tag \in {"Ok", "Err"}
          /\ IsRam(log[i]) => InsideRam(log[i])
    /\ last.res # Panic
    /\ Returned("set_led") =>
          /\ Len(log) <= 1
          /\ \A i \in 1..Len(log) :
                /\ log[i].kind = "write"
                /\ Len(log[i].bytes) = 2
                /\ log[i].bytes[1] = last.args[1].row
    /\ Returned("write_display_buffer") =>
          /\ Len(log) = 1
          /\ log[1].kind = "write"
          /\ log[1].bytes[1] = 0
          /\ Len(log[1].bytes) = 1 + ROWS_SIZE
    /\ Returned("read_display_buffer") =>
          /\ Len(log) = 1
          /\ log[1].kind = "write_read"
          /\ log[1].bytes = <<0>>
          /\ log[1].len = ROWS_SIZE

\* an accepted set_led on the last row, register 15, as third operation
C26_Witness ==
    /\ Succeeded("set_led")
    /\ last.args[1].row = ROWS_SIZE - 1
    /\ nops = 3
    /\ Len(log) = 1
    /\ log[1].bytes[1] = ROWS_SIZE - 1
    /\ InsideRam(log[1])
    /\ data_values[ROWS_SIZE - 1] = buffer[ROWS_SIZE - 1]
    /\ buffer[ROWS_SIZE - 1] # 0

\* the buffer the last call started from, with the LED of its location
\* argument switched as its second argument asks
Requested ==
    [last.before EXCEPT ![last.args[1].row] =
        WithBit(@, last.args[1].common, last.args[2])]
ZeroBuffer == [row \in Rows |-> 0]

\* C27: a read_display_buffer() that returns Ok leaves the shadow buffer
\* equal to the simulator's registers, whatever unsent changes
\* update_display_buffer or clear_display_buffer had made to it (they are
\* lost); when the call before it was a write_display_buffer() that
\* returned Ok the buffer after the read is the buffer from before it (a
\* refused read leaves the buffer alone too).  Every other operation leaves
\* the buffer as the caller asked: update_display_buffer and set_led change
\* the one requested LED, clear_display_buffer zeroes it, initialize zeroes
\* it or leaves it, the setters and write_display_buffer leave it.
C27_ReadDiscardsPending ==
    /\ Succeeded("read_display_buffer") =>
          /\ buffer = data_values
          /\ last.after_write => buffer = last.before
    /\ (Returned("read_display_buffer") /\ last.res.tag = "Err") =>
          buffer = last.before
    /\ last.op \in {"update_display_buffer", "set_led"} =>
          buffer = Requested
    /\ Returned("clear_display_buffer") => buffer = ZeroBuffer
    /\ Returned("initialize") => buffer \in {last.before, ZeroBuffer}
    /\ last.op \in {"set_oscillator", "set_display", "set_dimming",
                    "write_display_buffer"} => buffer = last.before

\* LED (0, 0) was enabled in the buffer and never sent; the read then
\* returned Ok and the buffer holds the registers, with LED (0, 0) off
C27_Witness ==
    /\ Succeeded("read_display_buffer")
    /\ ~last.after_write
    /\ Bit(last.before[0], 0) = 1
    /\ Bit(buffer[0], 0) = 0
    /\ buffer[0] = 128
    /\ buffer = data_values

\* a display setup byte: the command prefix 1000 in the high four bits
IsDisplayCommand(t) ==
    /\ t.kind = "write"
    /\ Len(t.bytes) = 1
    /\ t.bytes[1] \div 16 = DISPLAY_SET \div 16

\* C28: each of the blinking display states HALF_HZ, ONE_HZ and TWO_HZ has
\* the ON bit, bit 0, set, and every display command byte the driver sends
\* with a non-zero blink rate in bits 1-2 has bit 0 set.
C28_BlinkIncludesOn ==
    /\ \A state \in {Display_HALF_HZ, Display_ONE_HZ, Display_TWO_HZ} :
          /\ BitAnd(state, Display_ON) = Display_ON
          /\ BitAnd(state, 6) # 0
    /\ \A i \in 1..Len(log) :
          (IsDisplayCommand(log[i]) /\ BitAnd(log[i].bytes[1], 6) # 0) =>
              Bit(log[i].bytes[1], 0) = 1

\* a 16-bit row mask with exactly one bit set
OneBit(mask) == Cardinality({r \in Rows : Bit(mask, r) = 1}) = 1

\* C29: every location LedLocation::new returns for valid arguments and the
\* location LedLocation::default returns has a row mask with exactly one
\* bit set; for LedLocation::new(row, common) it is bit number row
\* ((0, 0) gives ROW_0 and COMMON_0, (15, 7) gives ROW_15 and COMMON_7).
C29_OneBitSelector ==
    /\ Succeeded("LedLocation::new") =>
          /\ OneBit(last.res.value.row)
          /\ last.res.value.row = 2 ^ last.args[1]
          /\ last.res.value.common = last.args[2]
    /\ Returned("LedLocation::default") => OneBit(last.res.row)

\* every transaction of the step's operation was accepted, as the register
\* simulator accepts it
AllAccepted(transactions) ==
    \A i \in 1..Len(transactions) : transactions[i].tag = "Ok"

\* C30: on a bus that accepts every transaction, an initialize() that
\* returns Ok leaves the simulator's 16 registers equal to the 16 bytes of
\* the shadow buffer, and every operation other than update_display_buffer
\* and clear_display_buffer (set_led, write_display_buffer,
\* read_display_buffer, the setters, initialize) that starts with the two
\* equal ends with the two equal.
C30_RegistersFollowShadow ==
    [][/\ (last'.op = "initialize" /\ last'.res.tag = "Ok") =>
            buffer' = data_values'
       /\ (/\ buffer = data_values
           /\ last'.op \in BusOperations \cup {"initialize"}
           /\ AllAccepted(log')) => buffer' = data_values']_vars

\* initialize, then two accepted set_led: LED (0, 0), then LED (15, 7);
\* registers and buffer both hold the two LEDs
C30_Witness ==
    /\ Succeeded("set_led")
    /\ last.args = <<[row |-> ROWS_SIZE - 1, common |-> COMMONS_SIZE - 1],
                     TRUE>>
    /\ nops = 3
    /\ oscillator_state = "On"
    /\ buffer = [ZeroBuffer EXCEPT ![0] = 1, ![ROWS_SIZE - 1] = 128]
    /\ data_values = buffer

\* the register groups and the group a transaction writes a command of: a
\* lone byte with prefix 001 (oscillator), 100 (display) or 111 (dimming)
Groups == {"oscillator", "display", "dimming"}
GroupOf(t) ==
    IF t.kind = "write" /\ Len(t.bytes) = 1
    THEN CASE t.bytes[1] \div 32 = SYSTEM_SET \div 32 -> "oscillator"
           [] t.bytes[1] \div 32 = DISPLAY_SET \div 32 -> "display"
           [] t.bytes[1] \div 32 = DIMMING_SET \div 32 -> "dimming"
           [] OTHER -> "none"
    ELSE "none"
Sent(transactions, group) ==
    {i \in 1..Len(transactions) : GroupOf(transactions[i]) = group}
LastSent(transactions, group) ==
    LET i == CHOOSE k \in Sent(transactions, group) :
                 \A j \in Sent(transactions, group) : j <= k
    IN transactions[i].bytes[1]

\* a group's shadow value within a configuration <<oscillator, display,
\* blink, dimming>>, and the command byte that encodes it
ShadowOf(group, c) ==
    CASE group = "oscillator" -> <<c[1]>>
      [] group = "display" -> <<c[2], c[3]>>
      [] group = "dimming" -> <<c[4]>>
ShadowByte(group, c) ==
    CASE group = "oscillator" -> OscillatorByte(c[1])
      [] group = "display" -> DisplayByte(c[2], c[3])
      [] group = "dimming" -> BitOr(DIMMING_SET, DimmingBits(c[4]))

\* C31: on a bus that accepts every transaction the shadow configuration
\* follows the commands sent: an operation that writes a command of a
\* group ends with the last such command equal to prefix | encoding of the
\* group's shadow value, and an operation that writes no command of a
\* group leaves the group's shadow value as it was.  So after any sequence
\* of accepted operations the last command written for a group encodes its
\* current shadow value.
C31_ShadowIsLastSent ==
    [][AllAccepted(log') =>
         \A group \in Groups :
            IF Sent(log', group) # {}
            THEN LastSent(log', group) = ShadowByte(group, config')
            ELSE ShadowOf(group, config') = ShadowOf(group, config)]_vars

\* three accepted setters, one per group: the display command 0x83 was the
\* last one and the shadow holds On at 2 Hz, oscillator On, brightness 9
C31_Witness ==
    /\ Succeeded("set_display")
    /\ nops = 3
    /\ log[1].bytes = <<131>>
    /\ LastSent(log, "display") = ShadowByte("display", config)
    /\ config = <<"On", "On", "TwoHz", Brightness(9)>>

\* ------------------------------------------------------------------------
\* The bus simulator as specified: a register array and a persistent
\* current_offset cursor, 0 at the start.  A step whose register index is
\* outside the array, or whose bytes are empty, is not specified: defined
\* is FALSE from then on.
\* ------------------------------------------------------------------------
BusSimulator(registers, current_offset) ==
    [registers |-> registers, current_offset |-> current_offset,
     defined |-> TRUE]

\* each byte after the first is written to registers[current_offset], the
\* cursor is incremented with wraparound after every byte
RECURSIVE BusSimulator_store(_, _, _)
BusSimulator_store(sim, bytes, i) ==
    IF i > Len(bytes) THEN sim
    ELSE IF sim.current_offset \notin DOMAIN sim.registers
    THEN [sim EXCEPT !.defined = FALSE]
    ELSE BusSimulator_store(
             [sim EXCEPT !.registers[sim.current_offset] = bytes[i],
                         !.current_offset = (@ + 1) % ROWS_SIZE],
             bytes, i + 1)

\* Write(bytes): bytes[0] sets the cursor (a lone byte does nothing more)
BusSimulator_Write(sim, bytes) ==
    IF ~sim.defined \/ Len(bytes) = 0 THEN [sim EXCEPT !.defined = FALSE]
    ELSE BusSimulator_store([sim EXCEPT !.current_offset = At(bytes, 0)],
                            bytes, 2)

\* Read(buffer): every slot gets registers[current_offset], the cursor is
\* incremented with the same wraparound; the cursor is not reset first
RECURSIVE BusSimulator_Read(_, _, _)
BusSimulator_Read(sim, n, out) ==
    IF Len(out) = n THEN [sim |-> sim, out |-> out]
    ELSE IF ~sim.defined \/ sim.current_offset \notin DOMAIN sim.registers
    THEN [sim |-> [sim EXCEPT !.defined = FALSE], out |-> out]
    ELSE BusSimulator_Read(
             [sim EXCEPT !.current_offset = (@ + 1) % ROWS_SIZE],
             n, Append(out, sim.registers[sim.current_offset]))

\* the combined write-then-read transaction: Write(bytes), then Read
BusSimulator_WriteRead(sim, bytes, n) ==
    BusSimulator_Read(BusSimulator_Write(sim, bytes), n, <<>>)

\* the specified simulator taken through the transactions from the i-th on;
\* outs collects what its reads returned
RECURSIVE BusSimulator_run(_, _, _, _)
BusSimulator_run(sim, outs, transactions, i) ==
    IF i > Len(transactions) THEN [sim |-> sim, outs |-> outs]
    ELSE LET t == transactions[i]
         IN IF t.kind = "write"
            THEN BusSimulator_run(BusSimulator_Write(sim, t.bytes), outs,
                                  transactions, i + 1)
            ELSE LET r == BusSimulator_WriteRead(sim, t.bytes, t.len)
                 IN BusSimulator_run(r.sim, Append(outs, r.out),
                                     transactions, i + 1)

\* what the reads among the transactions returned from I2cMock
RECURSIVE Outs(_, _)
Outs(transactions, i) ==
    IF i > Len(transactions) THEN <<>>
    ELSE IF transactions[i].kind = "write_read"
    THEN <<transactions[i].out>> \o Outs(transactions, i + 1)
    ELSE Outs(transactions, i + 1)

\* cursor values the specified simulator may start an operation with: the
\* initial 0, a register, the last register, one past it and command bytes
CursorInputs == {0, 1, ROWS_SIZE - 1, ROWS_SIZE, 33, 239}

\* SpecSimulator: the driver on the register simulator itself, every
\* transaction accepted
NextAccepted == Next /\ AllAccepted(log')
SpecSimulator == Init /\ [][NextAccepted]_vars

\* C32: for every driver operation, whatever cursor the specified
\* simulator starts it with, the specified simulator taken from the same
\* registers through the operation's transactions ends with the registers
\* I2cMock ends with and its reads return the bytes I2cMock returned, and
\* none of its steps is left unspecified.  Registers equal (and any cursor)
\* before an operation gives registers equal after it, so the two
\* simulators agree after every transaction of every sequence.
C32_CursorEquivalence ==
    [][\A cursor \in CursorInputs :
          LET end == BusSimulator_run(BusSimulator(data_values, cursor),
                                      <<>>, log', 1)
          IN /\ end.sim.defined
             /\ end.sim.registers = data_values'
             /\ end.outs = Outs(log', 1)]_vars

\* the third operation read the 16 registers, LED (15, 7) among them; the
\* specified simulator, its cursor left at a command byte, returns the same
C32_Witness ==
    /\ Succeeded("read_display_buffer")
    /\ nops = 3
    /\ data_values[ROWS_SIZE - 1] = 128
    /\ Len(log[1].out) = ROWS_SIZE
    /\ log[1].out[ROWS_SIZE] = 128
    /\ BusSimulator_run(BusSimulator(data_values, 33), <<>>, log, 1).outs
          = <<log[1].out>>

\* C33: a set_led the bus accepts leaves the register of its row equal to
\* the whole shadow byte of the row: the requested LED as asked and every
\* other LED of the row as the shadow buffer held it before the call,
\* unsent update_display_buffer changes included; the registers of every
\* other row are unchanged, so changes pending there stay unsent.  A set_led
\* the bus refuses changes no register.
C33_SetLedSendsRow ==
    [][last'.op = "set_led" =>
         LET row == last'.args[1].row
             common == last'.args[1].common
         IN IF last'.res.tag = "Ok"
            THEN /\ data_values'[row] = buffer'[row]
                 /\ Bit(data_values'[row], common) =
                        (IF last'.args[2] THEN 1 ELSE 0)
                 /\ \A c \in Commons : c # common =>
                        Bit(data_values'[row], c) = Bit(buffer[row], c)
                 /\ \A r \in Rows : r # row =>
                        /\ data_values'[r] = data_values[r]
                        /\ buffer'[r] = buffer[r]
            ELSE UNCHANGED data_values]_vars

\* update_display_buffer enabled LED (15, 0) and LED (0, 7), neither was
\* sent; set_led then enabled LED (0, 0): register 0 holds both LEDs of row
\* 0, register 15 still holds nothing
C33_Witness ==
    /\ Succeeded("set_led")
    /\ last.args = <<[row |-> 0, common |-> 0], TRUE>>
    /\ nops = 3
    /\ last.before[0] = 128
    /\ data_values[0] = 129
    /\ buffer[ROWS_SIZE - 1] = 1
    /\ data_values[ROWS_SIZE - 1] = 0

\* the shadow buffer update_display_buffer(location, enabled) leaves when it
\* is called on a driver whose shadow buffer is b
Updated(b, location, enabled) ==
    update_display_buffer([buffer |-> b], location, enabled).self.buffer

\* C34: two consecutive calls update_display_buffer(A, x) and then
\* update_display_buffer(B, y), from any shadow buffer: when B = A and
\* y = x the second call leaves the buffer the first call left, and when
\* B # A the buffer after the two calls is the buffer the calls give in the
\* other order, update_display_buffer(B, y) and then
\* update_display_buffer(A, x), from the same starting buffer.
C34_UpdateIdempotentCommutes ==
    [][(/\ last.op = "update_display_buffer"
        /\ last'.op = "update_display_buffer") =>
          LET A == last.args[1]
              x == last.args[2]
              B == last'.args[1]
              y == last'.args[2]
              start == last.before
          IN /\ buffer = Updated(start, A, x)
             /\ (B = A /\ y = x) => buffer' = buffer
             /\ B # A =>
                   buffer' = Updated(Updated(start, B, y), A, x)]_vars

\* from a buffer with LED (0, 0) on: LED (0, 7) was enabled, then LED (0, 0)
\* of the same row was disabled
C34_Witness ==
    /\ Returned("update_display_buffer")
    /\ last.args = <<[row |-> 0, common |-> 0], FALSE>>
    /\ nops = 3
    /\ last.before[0] = 129
    /\ buffer[0] = 128
    /\ buffer = Updated(Updated([ZeroBuffer EXCEPT ![0] = 1],
                                 [row |-> 0, common |-> 0], FALSE),
                         [row |-> 0, common |-> 7], TRUE)

\* C35: an initialize() that returns Ok, from any state, ends with the
\* shadow oscillator On, display Off, blink Off, dimming MaxBrightness, the
\* 16 bytes of the shadow buffer zero and the 16 registers of the simulator
\* zero; an initialize() that returns Ok right after one that returned Ok
\* changes nothing of the driver or the registers.
C35_InitializeResets ==
    [][(last'.op = "initialize" /\ last'.res.tag = "Ok") =>
         /\ config' = <<"On", "Off", "Off", MaxBrightness>>
         /\ buffer' = ZeroBuffer
         /\ data_values' = ZeroBuffer
         /\ Succeeded("initialize") => UNCHANGED <<driver, data_values>>]_vars

\* the third operation, initialize, returned Ok on a driver with two LEDs of
\* row 0 in its shadow buffer
C35_Witness ==
    /\ Succeeded("initialize")
    /\ nops = 3
    /\ last.before[0] = 129
    /\ buffer = ZeroBuffer
    /\ data_values = ZeroBuffer
    /\ config = <<"On", "Off", "Off", MaxBrightness>>

\* C36: an initialize() that returns an error has been refused its k-th
\* write.  k = 1 (oscillator): the shadow oscillator is On; display, blink,
\* dimming and the buffer are as before the call.  k = 2 (display): the
\* oscillator is On, display and blink are Off; dimming and the buffer are
\* as before.  k = 3 (dimming): oscillator On, display and blink Off,
\* dimming MaxBrightness; the buffer is as before.  k = 4 (the buffer
\* write): the three hold initialize's values and the shadow buffer is all
\* zero.  The registers are as before in each case.
C36_InitializeFailure ==
    [][(last'.op = "initialize" /\ last'.res.tag = "Err") =>
         LET k == Len(log')
         IN /\ k \in 1..4
            /\ log'[k].tag = "Err"
            /\ oscillator_state' = "On"
            /\ IF k >= 2
               THEN display_state' = "Off" /\ blink_state' = "Off"
               ELSE UNCHANGED <<display_state, blink_state>>
            /\ IF k >= 3
               THEN dimming_state' = MaxBrightness
               ELSE UNCHANGED dimming_state
            /\ IF k = 4
               THEN buffer' = ZeroBuffer
               ELSE UNCHANGED buffer
            /\ UNCHANGED data_values]_vars

\* initialize was refused its display write on a driver dimmed to 9 with
\* LED (0, 0) in its buffer: the oscillator reads On, the dimming is still
\* 9 and the LED is still in the buffer
C36_Witness ==
    /\ Returned("initialize")
    /\ last.res.tag = "Err"
    /\ Len(log) = 2
    /\ nops = 3
    /\ oscillator_state = "On"
    /\ dimming_state = Brightness(9)
    /\ buffer[0] = 1
    /\ buffer = last.before

=============================================================================
